---- MODULE Spec2Model ----
(***************************************************************************)
(* Decoding front-end of the EIP-1962 pairing engine:                      *)
(*   src/src/public_interface/decode_g1.rs                                 *)
(*   src/src/public_interface/decode_g2.rs                                 *)
(* A decode session is a cursor automaton over an immutable byte buffer:   *)
(* every decode function takes the remaining bytes and returns either      *)
(* Ok(value, rest) or Err(kind, message).                                  *)
(*                                                                         *)
(* A byte slice is a sequence of numbers 0..255.  A BigUint is modelled as *)
(* num-bigint keeps it: a normalised digit string (big-endian base 256,    *)
(* no leading zero digit; zero is the empty string).  A u64 limb is a      *)
(* BigUint of at most LimbBytes digits.  A base-field element Fp is the    *)
(* natural number it stands for.                                           *)
(***************************************************************************)
EXTENDS Integers, Sequences, FiniteSets, TLC

VARIABLES buffer, rest, declared, field, order, ext2, ext3, point, last, failed

vars == <<buffer, rest, declared, field, order, ext2, ext3, point, last, failed>>

(***************************************************************************)
(* Bounds of the model.                                                    *)
(***************************************************************************)
MaxTail == 4
MaxScalarLen == 10
MaxReprLen == 2
MaxReaderLen == 5

(***************************************************************************)
(* Program constants.                                                      *)
(***************************************************************************)
BYTES_FOR_LENGTH_ENCODING == 1
EXTENSION_DEGREE_ENCODING_LENGTH == 1
EXTENSION_DEGREE_2 == 2
EXTENSION_DEGREE_3 == 3
LimbBytes == 8
NUM_LIMBS == 4

(***************************************************************************)
(* Result<T, ApiError>.                                                    *)
(***************************************************************************)
Ok(v, r) == [ok |-> TRUE, value |-> v, rest |-> r]

Err(k, m) == [ok |-> FALSE, kind |-> k, msg |-> m]

(***************************************************************************)
(* Slices.                                                                 *)
(***************************************************************************)
split_at(s, k) == <<SubSeq(s, 1, k), SubSeq(s, k + 1, Len(s))>>

(***************************************************************************)
(* num-bigint.                                                             *)
(***************************************************************************)
RECURSIVE StripLeadingZeros(_)
StripLeadingZeros(b) ==
    IF b = <<>> THEN <<>>
    ELSE IF Head(b) = 0 THEN StripLeadingZeros(Tail(b))
    ELSE b

from_bytes_be(bytes) == StripLeadingZeros(bytes)

is_zero(v) == v = <<>>

BigLt(a, b) ==
    \/ Len(a) < Len(b)
    \/ /\ Len(a) = Len(b)
       /\ \E i \in 1..Len(a) :
            /\ a[i] < b[i]
            /\ \A j \in 1..(i - 1) : a[j] = b[j]

BigGe(a, b) == ~BigLt(a, b)

RECURSIVE ToNat(_)
ToNat(v) ==
    IF v = <<>> THEN 0
    ELSE 256 * ToNat(SubSeq(v, 1, Len(v) - 1)) + v[Len(v)]

RECURSIVE NatToBig(_)
NatToBig(n) ==
    IF n = 0 THEN <<>>
    ELSE NatToBig(n \div 256) \o <<n % 256>>

RECURSIVE Pow256(_)
Pow256(n) == IF n = 0 THEN 1 ELSE 256 * Pow256(n - 1)

(***************************************************************************)
(* crate::field.  biguint_to_u64_vec gives the limbs least significant     *)
(* first and no limb at all for zero; LimbsToBig is the value of a limb    *)
(* vector.  field_from_modulus refuses a modulus that does not fit the     *)
(* NUM_LIMBS limbs of the representation.                                  *)
(***************************************************************************)
RECURSIVE biguint_to_u64_vec(_)
biguint_to_u64_vec(v) ==
    IF v = <<>> THEN <<>>
    ELSE IF Len(v) <= LimbBytes THEN <<v>>
    ELSE <<StripLeadingZeros(SubSeq(v, Len(v) - LimbBytes + 1, Len(v)))>>
            \o biguint_to_u64_vec(SubSeq(v, 1, Len(v) - LimbBytes))

PadLimb(l) == [i \in 1..(LimbBytes - Len(l)) |-> 0] \o l

RECURSIVE LimbDigits(_)
LimbDigits(repr) ==
    IF repr = <<>> THEN <<>>
    ELSE LimbDigits(Tail(repr)) \o PadLimb(Head(repr))

LimbsToBig(repr) == StripLeadingZeros(LimbDigits(repr))

resize(repr, n) == repr \o [i \in 1..(n - Len(repr)) |-> <<>>]

field_from_modulus(modulus) ==
    IF is_zero(modulus) \/ Len(modulus) > NUM_LIMBS * LimbBytes
    THEN [ok |-> FALSE]
    ELSE [ok |-> TRUE, value |-> [modulus |-> modulus]]

(***************************************************************************)
(* crate::fp and crate::extension_towers: field arithmetic, by its         *)
(* mathematical meaning (the Montgomery form of the code is not            *)
(* modelled).  MulMod doubles and adds so that no intermediate value       *)
(* exceeds twice the modulus.  The Frobenius coefficients of Fp2 need      *)
(* (modulus - 1) divisible by 2, those of Fp3 by 3.                        *)
(***************************************************************************)
Only(S) == CHOOSE x \in S : TRUE

RECURSIVE MulMod(_, _, _)
MulMod(a, b, m) ==
    IF b = 0 THEN 0
    ELSE Only({ IF b % 2 = 1 THEN (2 * h + a) % m ELSE (2 * h) % m :
                h \in {MulMod(a, b \div 2, m)} })

RECURSIVE PowMod(_, _, _)
PowMod(b, e, m) ==
    IF e = 0 THEN 1 % m
    ELSE Only({ IF e % 2 = 1 THEN MulMod(MulMod(h, h, m), b, m)
                ELSE MulMod(h, h, m) :
                h \in {PowMod(b, e \div 2, m)} })

pow(x, exp, fld) == PowMod(x, ToNat(LimbsToBig(exp)), ToNat(fld.modulus))

Fp_from_be_bytes(fld, bytes) ==
    LET v == from_bytes_be(bytes)
    IN IF BigLt(v, fld.modulus)
       THEN [ok |-> TRUE, value |-> ToNat(v)]
       ELSE [ok |-> FALSE]

legendre_symbol(element, fld, modulus_minus_one_by_2) ==
    LET a == pow(element, modulus_minus_one_by_2, fld)
    IN IF a = 0 THEN "Zero"
       ELSE IF a = 1 % ToNat(fld.modulus) THEN "QuadraticResidue"
       ELSE "QuadraticNonResidue"

Extension2_new(fld, non_residue) ==
    [field |-> fld, non_residue |-> non_residue, frobenius_coeffs_c1 |-> <<>>]

Extension2_calculate_frobenius_coeffs(ext, modulus) ==
    LET m == ToNat(modulus)
    IN IF (m - 1) % 2 # 0 THEN [ok |-> FALSE]
       ELSE [ok |-> TRUE,
             value |-> [ext EXCEPT !.frobenius_coeffs_c1 =
                          <<1 % m, PowMod(ext.non_residue, (m - 1) \div 2, m)>>]]

Extension3_new(fld, non_residue) ==
    [field |-> fld, non_residue |-> non_residue,
     frobenius_coeffs_c1 |-> <<>>, frobenius_coeffs_c2 |-> <<>>]

Extension3_calculate_frobenius_coeffs(ext, modulus) ==
    LET m == ToNat(modulus)
    IN IF (m - 1) % 3 # 0 THEN [ok |-> FALSE]
       ELSE LET f1 == PowMod(ext.non_residue, (m - 1) \div 3, m)
                f2 == PowMod(f1, m + 1, m)
            IN [ok |-> TRUE,
                value |-> [ext EXCEPT
                    !.frobenius_coeffs_c1 = <<1 % m, f1, f2>>,
                    !.frobenius_coeffs_c2 =
                        <<1 % m, MulMod(f1, f1, m), MulMod(f2, f2, m)>>]]

(***************************************************************************)
(* public_interface::decode_fp.                                            *)
(***************************************************************************)
decode_fp(bytes, field_byte_len, base_field) ==
    IF Len(bytes) < field_byte_len
    THEN Err("InputError", "Input is not long enough to get Fp element")
    ELSE LET sp == split_at(bytes, field_byte_len)
             x == Fp_from_be_bytes(base_field, sp[1])
         IN IF ~x.ok THEN Err("InputError", "Failed to parse Fp element")
            ELSE Ok(x.value, sp[2])

decode_fp2(bytes, field_byte_len, extension_field) ==
    LET c0 == decode_fp(bytes, field_byte_len, extension_field.field)
    IN IF ~c0.ok THEN c0
       ELSE LET c1 == decode_fp(c0.rest, field_byte_len, extension_field.field)
            IN IF ~c1.ok THEN c1
               ELSE Ok(<<c0.value, c1.value>>, c1.rest)

decode_fp3(bytes, field_byte_len, extension_field) ==
    LET c0 == decode_fp(bytes, field_byte_len, extension_field.field)
    IN IF ~c0.ok THEN c0
       ELSE LET c1 == decode_fp(c0.rest, field_byte_len, extension_field.field)
            IN IF ~c1.ok THEN c1
               ELSE LET c2 == decode_fp(c1.rest, field_byte_len, extension_field.field)
                    IN IF ~c2.ok THEN c2
                       ELSE Ok(<<c0.value, c1.value, c2.value>>, c2.rest)

serialize_fp_fixed_len(bytes_len, element) ==
    IF element >= Pow256(bytes_len)
    THEN Err("OutputError", "Failed to serialize Fp element")
    ELSE [ok |-> TRUE,
          value |-> [i \in 1..bytes_len |->
                        (element \div Pow256(bytes_len - i)) % 256]]

(***************************************************************************)
(* crate::weierstrass: points in affine coordinates.                       *)
(***************************************************************************)
point_from_xy(curve, x, y) == [curve |-> curve, x |-> x, y |-> y]

into_xy(p) == <<p.x, p.y>>

(***************************************************************************)
(* public_interface::decode_g1.                                            *)
(***************************************************************************)
(* Variant: get_base_field_params without the zero test. *)
get_base_field_params_no_zero_check(bytes) ==
    IF Len(bytes) < BYTES_FOR_LENGTH_ENCODING
    THEN Err("InputError", "Input is not long enough to get modulus length")
    ELSE LET sp1 == split_at(bytes, BYTES_FOR_LENGTH_ENCODING)
             modulus_len == sp1[1][1]
         IN IF Len(sp1[2]) < modulus_len
            THEN Err("InputError", "Input is not long enough to get modulus")
            ELSE LET sp2 == split_at(sp1[2], modulus_len)
                     modulus == from_bytes_be(sp2[1])
                 IN IF FALSE
                    THEN Err("UnexpectedZero", "Modulus can not be zero")
                    ELSE Ok([modulus |-> modulus, modulus_len |-> modulus_len],
                            sp2[2])

get_base_field_params(bytes) ==
    IF Len(bytes) < BYTES_FOR_LENGTH_ENCODING
    THEN Err("InputError", "Input is not long enough to get modulus length")
    ELSE LET sp1 == split_at(bytes, BYTES_FOR_LENGTH_ENCODING)
             modulus_len == sp1[1][1]
         IN IF Len(sp1[2]) < modulus_len
            THEN Err("InputError", "Input is not long enough to get modulus")
            ELSE LET sp2 == split_at(sp1[2], modulus_len)
                     modulus == from_bytes_be(sp2[1])
                 IN IF is_zero(modulus)
                    THEN Err("UnexpectedZero", "Modulus can not be zero")
                    ELSE Ok([modulus |-> modulus, modulus_len |-> modulus_len],
                            sp2[2])

(* Variant: parse_base_field_from_encoding without the pre-check of the bytes
   that follow the header. *)
parse_base_field_from_encoding_no_precheck(encoding) ==
    LET p == get_base_field_params(encoding)
    IN IF ~p.ok THEN p
       ELSE LET fld == field_from_modulus(p.value.modulus)
            IN IF ~fld.ok
               THEN Err("InputError", "Failed to create prime field from modulus")
               ELSE IF FALSE
               THEN Err("InputError", "Input is not long enough")
               ELSE Ok([field |-> fld.value,
                        modulus_len |-> p.value.modulus_len,
                        modulus |-> p.value.modulus], p.rest)

parse_base_field_from_encoding(encoding) ==
    LET p == get_base_field_params(encoding)
    IN IF ~p.ok THEN p
       ELSE LET fld == field_from_modulus(p.value.modulus)
            IN IF ~fld.ok
               THEN Err("InputError", "Failed to create prime field from modulus")
               ELSE IF Len(p.rest) < p.value.modulus_len
               THEN Err("InputError", "Input is not long enough")
               ELSE Ok([field |-> fld.value,
                        modulus_len |-> p.value.modulus_len,
                        modulus |-> p.value.modulus], p.rest)

(* Variant: get_g1_curve_params with the length test rest.len() <= order_len. *)
get_g1_curve_params_le(bytes) ==
    IF Len(bytes) < BYTES_FOR_LENGTH_ENCODING
    THEN Err("InputError", "Input is not long enough to get group size length")
    ELSE LET sp1 == split_at(bytes, BYTES_FOR_LENGTH_ENCODING)
             order_len == sp1[1][1]
         IN IF Len(sp1[2]) <= order_len
            THEN Err("InputError",
                     "Input is not long enough to get main group order size")
            ELSE LET sp2 == split_at(sp1[2], order_len)
                 IN Ok([order_encoding |-> sp2[1], order_len |-> order_len],
                       sp2[2])

get_g1_curve_params(bytes) ==
    IF Len(bytes) < BYTES_FOR_LENGTH_ENCODING
    THEN Err("InputError", "Input is not long enough to get group size length")
    ELSE LET sp1 == split_at(bytes, BYTES_FOR_LENGTH_ENCODING)
             order_len == sp1[1][1]
         IN IF Len(sp1[2]) < order_len
            THEN Err("InputError",
                     "Input is not long enough to get main group order size")
            ELSE LET sp2 == split_at(sp1[2], order_len)
                 IN Ok([order_encoding |-> sp2[1], order_len |-> order_len],
                       sp2[2])

parse_group_order_from_encoding(encoding) ==
    LET p == get_g1_curve_params(encoding)
    IN IF ~p.ok THEN p
       ELSE LET ord == from_bytes_be(p.value.order_encoding)
            IN IF is_zero(ord)
               THEN Err("InputError", "Group order is zero")
               ELSE Ok([as_vec |-> biguint_to_u64_vec(ord),
                        order_len |-> p.value.order_len,
                        order |-> ord], p.rest)

(* Variant: parse_ab_in_base_field_from_encoding returning the remainder of a. *)
parse_ab_in_base_field_from_encoding_stale_rest(encoding, modulus_len, base_field) ==
    LET a == decode_fp(encoding, modulus_len, base_field)
    IN IF ~a.ok THEN a
       ELSE LET b == decode_fp(a.rest, modulus_len, base_field)
            IN IF ~b.ok THEN b
               ELSE Ok([a |-> a.value, b |-> b.value], a.rest)

parse_ab_in_base_field_from_encoding(encoding, modulus_len, base_field) ==
    LET a == decode_fp(encoding, modulus_len, base_field)
    IN IF ~a.ok THEN a
       ELSE LET b == decode_fp(a.rest, modulus_len, base_field)
            IN IF ~b.ok THEN b
               ELSE Ok([a |-> a.value, b |-> b.value], b.rest)

(* Variant: serialize_g1_point writing Y before X. *)
serialize_g1_point_yx(modulus_len, p) ==
    LET xy == into_xy(p)
        rx == serialize_fp_fixed_len(modulus_len, xy[1])
    IN IF ~rx.ok THEN rx
       ELSE LET ry == serialize_fp_fixed_len(modulus_len, xy[2])
            IN IF ~ry.ok THEN ry
               ELSE [ok |-> TRUE, value |-> ry.value \o rx.value]

serialize_g1_point(modulus_len, p) ==
    LET xy == into_xy(p)
        rx == serialize_fp_fixed_len(modulus_len, xy[1])
    IN IF ~rx.ok THEN rx
       ELSE LET ry == serialize_fp_fixed_len(modulus_len, xy[2])
            IN IF ~ry.ok THEN ry
               ELSE [ok |-> TRUE, value |-> rx.value \o ry.value]

decode_g1_point_from_xy(bytes, field_byte_len, curve) ==
    IF Len(bytes) < field_byte_len
    THEN Err("InputError", "Input is not long enough to get X")
    ELSE LET sp1 == split_at(bytes, field_byte_len)
             x == Fp_from_be_bytes(curve.base_field, sp1[1])
         IN IF ~x.ok THEN Err("InputError", "Failed to parse X")
            ELSE IF Len(sp1[2]) < field_byte_len
            THEN Err("InputError", "Input is not long enough to get Y")
            ELSE LET sp2 == split_at(sp1[2], field_byte_len)
                     y == Fp_from_be_bytes(curve.base_field, sp2[1])
                 IN IF ~y.ok THEN Err("InputError", "Failed to parse Y")
                    ELSE Ok(point_from_xy(curve, x.value, y.value), sp2[2])

(* Variant: decode_scalar_representation with the bound test scalar > order. *)
decode_scalar_representation_gt(bytes, order_byte_len, ord, order_repr) ==
    IF Len(bytes) < order_byte_len
    THEN Err("InputError", "Input is not long enough to get scalar")
    ELSE LET sp == split_at(bytes, order_byte_len)
             scalar == from_bytes_be(sp[1])
         IN IF BigLt(ord, scalar)
            THEN Err("InputError", "Group order is zero")
            ELSE LET repr == biguint_to_u64_vec(scalar)
                 IN Ok(IF Len(repr) < Len(order_repr)
                       THEN resize(repr, Len(order_repr))
                       ELSE repr, sp[2])

decode_scalar_representation(bytes, order_byte_len, ord, order_repr) ==
    IF Len(bytes) < order_byte_len
    THEN Err("InputError", "Input is not long enough to get scalar")
    ELSE LET sp == split_at(bytes, order_byte_len)
             scalar == from_bytes_be(sp[1])
         IN IF BigGe(scalar, ord)
            THEN Err("InputError", "Group order is zero")
            ELSE LET repr == biguint_to_u64_vec(scalar)
                 IN Ok(IF Len(repr) < Len(order_repr)
                       THEN resize(repr, Len(order_repr))
                       ELSE repr, sp[2])

(***************************************************************************)
(* public_interface::decode_g2.                                            *)
(***************************************************************************)
(* Variant: create_fp2_extension without the Legendre test. *)
create_fp2_extension_no_legendre(bytes, modulus, field_byte_len, base_field) ==
    IF Len(bytes) < EXTENSION_DEGREE_ENCODING_LENGTH
    THEN Err("InputError", "Input is not long enough to get extension degree")
    ELSE LET sp == split_at(bytes, EXTENSION_DEGREE_ENCODING_LENGTH)
         IN IF sp[1][1] # EXTENSION_DEGREE_2
            THEN Err("UnknownParameter", "Extension degree expected to be 2")
            ELSE LET nr == decode_fp(sp[2], field_byte_len, base_field)
                 IN IF ~nr.ok THEN nr
                    ELSE IF nr.value = 0
                    THEN Err("UnexpectedZero", "Fp2 non-residue can not be zero")
                    ELSE LET modulus_minus_one_by_2 ==
                                 NatToBig((ToNat(modulus) - 1) \div 2)
                             legendre ==
                                 legendre_symbol(nr.value, base_field,
                                     biguint_to_u64_vec(modulus_minus_one_by_2))
                         IN IF FALSE
                            THEN Err("InputError",
                                     "Non-residue for Fp2 is actually a residue")
                            ELSE LET e == Extension2_calculate_frobenius_coeffs(
                                              Extension2_new(base_field, nr.value),
                                              modulus)
                                 IN IF ~e.ok
                                    THEN Err("UnknownParameter",
                                       "Failed to calculate Frobenius coeffs for Fp2")
                                    ELSE Ok(e.value, nr.rest)

(* Variant: create_fp2_extension decoding the element before it tests the tag. *)
create_fp2_extension_decode_first(bytes, modulus, field_byte_len, base_field) ==
    IF Len(bytes) < EXTENSION_DEGREE_ENCODING_LENGTH
    THEN Err("InputError", "Input is not long enough to get extension degree")
    ELSE LET sp == split_at(bytes, EXTENSION_DEGREE_ENCODING_LENGTH)
         IN LET nr == decode_fp(sp[2], field_byte_len, base_field)
                 IN IF ~nr.ok THEN nr
                    ELSE IF sp[1][1] # EXTENSION_DEGREE_2
                    THEN Err("UnknownParameter",
                             "Extension degree expected to be 2")
                    ELSE IF nr.value = 0
                    THEN Err("UnexpectedZero", "Fp2 non-residue can not be zero")
                    ELSE LET modulus_minus_one_by_2 ==
                                 NatToBig((ToNat(modulus) - 1) \div 2)
                             legendre ==
                                 legendre_symbol(nr.value, base_field,
                                     biguint_to_u64_vec(modulus_minus_one_by_2))
                         IN IF legendre \in {"QuadraticResidue", "Zero"}
                            THEN Err("InputError",
                                     "Non-residue for Fp2 is actually a residue")
                            ELSE LET e == Extension2_calculate_frobenius_coeffs(
                                              Extension2_new(base_field, nr.value),
                                              modulus)
                                 IN IF ~e.ok
                                    THEN Err("UnknownParameter",
                                       "Failed to calculate Frobenius coeffs for Fp2")
                                    ELSE Ok(e.value, nr.rest)

create_fp2_extension(bytes, modulus, field_byte_len, base_field) ==
    IF Len(bytes) < EXTENSION_DEGREE_ENCODING_LENGTH
    THEN Err("InputError", "Input is not long enough to get extension degree")
    ELSE LET sp == split_at(bytes, EXTENSION_DEGREE_ENCODING_LENGTH)
         IN IF sp[1][1] # EXTENSION_DEGREE_2
            THEN Err("UnknownParameter", "Extension degree expected to be 2")
            ELSE LET nr == decode_fp(sp[2], field_byte_len, base_field)
                 IN IF ~nr.ok THEN nr
                    ELSE IF nr.value = 0
                    THEN Err("UnexpectedZero", "Fp2 non-residue can not be zero")
                    ELSE LET modulus_minus_one_by_2 ==
                                 NatToBig((ToNat(modulus) - 1) \div 2)
                             legendre ==
                                 legendre_symbol(nr.value, base_field,
                                     biguint_to_u64_vec(modulus_minus_one_by_2))
                         IN IF legendre \in {"QuadraticResidue", "Zero"}
                            THEN Err("InputError",
                                     "Non-residue for Fp2 is actually a residue")
                            ELSE LET e == Extension2_calculate_frobenius_coeffs(
                                              Extension2_new(base_field, nr.value),
                                              modulus)
                                 IN IF ~e.ok
                                    THEN Err("UnknownParameter",
                                       "Failed to calculate Frobenius coeffs for Fp2")
                                    ELSE Ok(e.value, nr.rest)

(* Variant: create_fp3_extension with the Legendre test of create_fp2_extension. *)
create_fp3_extension_with_legendre(bytes, modulus, field_byte_len, base_field) ==
    IF Len(bytes) < EXTENSION_DEGREE_ENCODING_LENGTH
    THEN Err("InputError", "Input is not long enough to get extension degree")
    ELSE LET sp == split_at(bytes, EXTENSION_DEGREE_ENCODING_LENGTH)
         IN IF sp[1][1] # EXTENSION_DEGREE_3
            THEN Err("UnknownParameter", "Extension degree expected to be 3")
            ELSE LET nr == decode_fp(sp[2], field_byte_len, base_field)
                 IN IF ~nr.ok THEN nr
                    ELSE IF nr.value = 0
                    THEN Err("UnexpectedZero", "Fp2 non-residue can not be zero")
                    ELSE IF legendre_symbol(nr.value, base_field,
                                biguint_to_u64_vec(NatToBig(
                                    (ToNat(modulus) - 1) \div 2)))
                            \in {"QuadraticResidue", "Zero"}
                    THEN Err("InputError",
                             "Non-residue for Fp2 is actually a residue")
                    ELSE LET e == Extension3_calculate_frobenius_coeffs(
                                      Extension3_new(base_field, nr.value),
                                      modulus)
                         IN IF ~e.ok
                            THEN Err("UnknownParameter",
                                     "Failed to calculate Frobenius coeffs for Fp3")
                            ELSE Ok(e.value, nr.rest)

create_fp3_extension(bytes, modulus, field_byte_len, base_field) ==
    IF Len(bytes) < EXTENSION_DEGREE_ENCODING_LENGTH
    THEN Err("InputError", "Input is not long enough to get extension degree")
    ELSE LET sp == split_at(bytes, EXTENSION_DEGREE_ENCODING_LENGTH)
         IN IF sp[1][1] # EXTENSION_DEGREE_3
            THEN Err("UnknownParameter", "Extension degree expected to be 3")
            ELSE LET nr == decode_fp(sp[2], field_byte_len, base_field)
                 IN IF ~nr.ok THEN nr
                    ELSE IF nr.value = 0
                    THEN Err("UnexpectedZero", "Fp2 non-residue can not be zero")
                    ELSE LET e == Extension3_calculate_frobenius_coeffs(
                                      Extension3_new(base_field, nr.value),
                                      modulus)
                         IN IF ~e.ok
                            THEN Err("UnknownParameter",
                                     "Failed to calculate Frobenius coeffs for Fp3")
                            ELSE Ok(e.value, nr.rest)

decode_g2_point_from_xy_in_fp2(bytes, field_byte_len, curve) ==
    LET x == decode_fp2(bytes, field_byte_len, curve.base_field)
    IN IF ~x.ok THEN x
       ELSE LET y == decode_fp2(x.rest, field_byte_len, curve.base_field)
            IN IF ~y.ok THEN y
               ELSE Ok(point_from_xy(curve, x.value, y.value), y.rest)

decode_g2_point_from_xy_in_fp3(bytes, field_byte_len, curve) ==
    LET x == decode_fp3(bytes, field_byte_len, curve.base_field)
    IN IF ~x.ok THEN x
       ELSE LET y == decode_fp3(x.rest, field_byte_len, curve.base_field)
            IN IF ~y.ok THEN y
               ELSE Ok(point_from_xy(curve, x.value, y.value), y.rest)

parse_ab_in_fp2_from_encoding(encoding, modulus_len, ext) ==
    LET a == decode_fp2(encoding, modulus_len, ext)
    IN IF ~a.ok THEN a
       ELSE LET b == decode_fp2(a.rest, modulus_len, ext)
            IN IF ~b.ok THEN b
               ELSE Ok([a |-> a.value, b |-> b.value], b.rest)

parse_ab_in_fp3_from_encoding(encoding, modulus_len, ext) ==
    LET a == decode_fp3(encoding, modulus_len, ext)
    IN IF ~a.ok THEN a
       ELSE LET b == decode_fp3(a.rest, modulus_len, ext)
            IN IF ~b.ok THEN b
               ELSE Ok([a |-> a.value, b |-> b.value], b.rest)

(***************************************************************************)
(* Inputs of the model.  A session buffer is a header followed by any tail *)
(* of at most MaxTail bytes; the headers are encodings of moduli, group    *)
(* orders and extensions that let a session get past its first steps.      *)
(***************************************************************************)
ByteVals == {0, 2, 3, 7}

Headers ==
    { <<>>,
      <<1, 0>>,
      <<1, 7>>,
      <<1, 23>>,
      <<2, 0, 7>>,
      <<1, 7, 2, 3>>,
      <<1, 7, 3, 2>>,
      <<1, 7, 3, 2, 0, 2>>,
      <<1, 23, 3, 5>>,
      <<2, 0, 23, 0, 5, 0, 7>> }

SeqsUpTo(S, n) == UNION { [1..k -> S] : k \in 0..n }

Buffers == { h \o t : h \in Headers, t \in SeqsUpTo(ByteVals, MaxTail) }

NotSet == [set |-> FALSE]

FirstByte(s) == IF s = <<>> THEN 0 ELSE s[1]

(***************************************************************************)
(* A decode session.  rest is the cursor; declared is the sum of the       *)
(* declared lengths of the steps that succeeded; last is the last call,    *)
(* with the bytes it was given and what it returned.  The caller parses    *)
(* the base field, the group order and each extension once, decodes        *)
(* elements and points only over a field it has parsed, and gives up the   *)
(* session at the first error.  The messages built with format! are kept   *)
(* without their file and line.                                            *)
(***************************************************************************)
Init ==
    /\ buffer \in Buffers
    /\ rest = buffer
    /\ declared = 0
    /\ field = NotSet
    /\ order = NotSet
    /\ ext2 = NotSet
    /\ ext3 = NotSet
    /\ point = NotSet
    /\ last = [op |-> "none"]
    /\ failed = FALSE

Call(op, n, res, len) ==
    /\ last' = [op |-> op, input |-> rest, n |-> n, result |-> res]
    /\ rest' = IF res.ok THEN res.rest ELSE rest
    /\ declared' = IF res.ok THEN declared + len ELSE declared
    /\ failed' = ~res.ok
    /\ UNCHANGED buffer

GetBaseFieldParams ==
    /\ ~failed
    /\ LET res == get_base_field_params(rest)
       IN Call("get_base_field_params", 0, res, 1 + FirstByte(rest))
    /\ UNCHANGED <<field, order, ext2, ext3, point>>

GetG1CurveParams ==
    /\ ~failed
    /\ LET res == get_g1_curve_params(rest)
       IN Call("get_g1_curve_params", 0, res, 1 + FirstByte(rest))
    /\ UNCHANGED <<field, order, ext2, ext3, point>>

ParseBaseField ==
    /\ ~failed
    /\ ~field.set
    /\ LET res == parse_base_field_from_encoding(rest)
       IN /\ Call("parse_base_field_from_encoding", 0, res, 1 + FirstByte(rest))
          /\ field' = IF res.ok
                      THEN [set |-> TRUE, field |-> res.value.field,
                            modulus_len |-> res.value.modulus_len,
                            modulus |-> res.value.modulus]
                      ELSE field
    /\ UNCHANGED <<order, ext2, ext3, point>>

ParseGroupOrder ==
    /\ ~failed
    /\ ~order.set
    /\ LET res == parse_group_order_from_encoding(rest)
       IN /\ Call("parse_group_order_from_encoding", 0, res, 1 + FirstByte(rest))
          /\ order' = IF res.ok
                      THEN [set |-> TRUE, order |-> res.value.order,
                            order_len |-> res.value.order_len,
                            as_vec |-> res.value.as_vec]
                      ELSE order
    /\ UNCHANGED <<field, ext2, ext3, point>>

ParseAB ==
    /\ ~failed
    /\ field.set
    /\ LET res == parse_ab_in_base_field_from_encoding(rest, field.modulus_len,
                                                       field.field)
       IN Call("parse_ab_in_base_field_from_encoding", field.modulus_len, res,
               2 * field.modulus_len)
    /\ UNCHANGED <<field, order, ext2, ext3, point>>

CreateFp2 ==
    /\ ~failed
    /\ field.set
    /\ ~ext2.set
    /\ LET res == create_fp2_extension(rest, field.modulus, field.modulus_len,
                                       field.field)
       IN /\ Call("create_fp2_extension", field.modulus_len, res,
                  1 + field.modulus_len)
          /\ ext2' = IF res.ok THEN [set |-> TRUE, ext |-> res.value] ELSE ext2
    /\ UNCHANGED <<field, order, ext3, point>>

CreateFp3 ==
    /\ ~failed
    /\ field.set
    /\ ~ext3.set
    /\ LET res == create_fp3_extension(rest, field.modulus, field.modulus_len,
                                       field.field)
       IN /\ Call("create_fp3_extension", field.modulus_len, res,
                  1 + field.modulus_len)
          /\ ext3' = IF res.ok THEN [set |-> TRUE, ext |-> res.value] ELSE ext3
    /\ UNCHANGED <<field, order, ext2, point>>

DecodeG1Point ==
    /\ ~failed
    /\ field.set
    /\ LET res == decode_g1_point_from_xy(rest, field.modulus_len,
                                          [base_field |-> field.field])
       IN /\ Call("decode_g1_point_from_xy", field.modulus_len, res,
                  2 * field.modulus_len)
          /\ point' = IF res.ok
                      THEN [set |-> TRUE, p |-> res.value,
                            encoding |-> SubSeq(rest, 1, 2 * field.modulus_len)]
                      ELSE point
    /\ UNCHANGED <<field, order, ext2, ext3>>

SerializeG1Point ==
    /\ ~failed
    /\ point.set
    /\ last.op # "serialize_g1_point"
    /\ last' = [op |-> "serialize_g1_point", input |-> point.p,
                n |-> field.modulus_len,
                result |-> serialize_g1_point(field.modulus_len, point.p)]
    /\ failed' = ~last'.result.ok
    /\ UNCHANGED <<buffer, rest, declared, field, order, ext2, ext3, point>>

DecodeG2PointFp2 ==
    /\ ~failed
    /\ ext2.set
    /\ LET res == decode_g2_point_from_xy_in_fp2(rest, field.modulus_len,
                                                 [base_field |-> ext2.ext])
       IN Call("decode_g2_point_from_xy_in_fp2", field.modulus_len, res,
               4 * field.modulus_len)
    /\ UNCHANGED <<field, order, ext2, ext3, point>>

DecodeG2PointFp3 ==
    /\ ~failed
    /\ ext3.set
    /\ LET res == decode_g2_point_from_xy_in_fp3(rest, field.modulus_len,
                                                 [base_field |-> ext3.ext])
       IN Call("decode_g2_point_from_xy_in_fp3", field.modulus_len, res,
               6 * field.modulus_len)
    /\ UNCHANGED <<field, order, ext2, ext3, point>>

ParseABFp2 ==
    /\ ~failed
    /\ ext2.set
    /\ LET res == parse_ab_in_fp2_from_encoding(rest, field.modulus_len, ext2.ext)
       IN Call("parse_ab_in_fp2_from_encoding", field.modulus_len, res,
               4 * field.modulus_len)
    /\ UNCHANGED <<field, order, ext2, ext3, point>>

ParseABFp3 ==
    /\ ~failed
    /\ ext3.set
    /\ LET res == parse_ab_in_fp3_from_encoding(rest, field.modulus_len, ext3.ext)
       IN Call("parse_ab_in_fp3_from_encoding", field.modulus_len, res,
               6 * field.modulus_len)
    /\ UNCHANGED <<field, order, ext2, ext3, point>>

DecodeScalar ==
    /\ ~failed
    /\ order.set
    /\ LET res == decode_scalar_representation(rest, order.order_len,
                                               order.order, order.as_vec)
       IN Call("decode_scalar_representation", order.order_len, res,
               order.order_len)
    /\ UNCHANGED <<field, order, ext2, ext3, point>>

Next ==
    \/ ParseBaseField
    \/ ParseGroupOrder
    \/ ParseAB
    \/ CreateFp2
    \/ CreateFp3
    \/ DecodeG1Point
    \/ SerializeG1Point
    \/ DecodeG2PointFp2
    \/ DecodeG2PointFp3
    \/ ParseABFp2
    \/ ParseABFp3
    \/ DecodeScalar

Spec == Init /\ [][Next]_vars

(***************************************************************************)
(* The length-prefixed readers on their own: any bytes, read after read.   *)
(***************************************************************************)
InitReader ==
    /\ buffer \in SeqsUpTo(ByteVals \cup {1}, MaxReaderLen)
    /\ rest = buffer
    /\ declared = 0
    /\ field = NotSet
    /\ order = NotSet
    /\ ext2 = NotSet
    /\ ext3 = NotSet
    /\ point = NotSet
    /\ last = [op |-> "none"]
    /\ failed = FALSE

NextReader ==
    \/ GetBaseFieldParams
    \/ GetG1CurveParams
    \/ ParseBaseField
    \/ ParseGroupOrder

SpecReader == InitReader /\ [][NextReader]_vars

(***************************************************************************)
(* Scalar decoding on its own: decode_scalar_representation takes the      *)
(* order, its byte length and its limb vector from the caller; a multi-    *)
(* scalar input is decoded scalar after scalar.                            *)
(***************************************************************************)
ScalarByteVals == {0, 15}

OrderPayloads ==
    { <<11>>,
      <<15>>,
      <<0, 11>>,
      <<15, 0>>,
      <<15, 0, 0, 0, 0, 0, 0, 0>>,
      <<0, 15, 0, 0, 0, 0, 0, 0, 0>>,
      <<15, 0, 0, 0, 0, 0, 0, 0, 0>>,
      <<15, 0, 0, 0, 0, 0, 0, 0, 15>>,
      <<15, 0, 0, 0, 0, 0, 0, 15, 15>> }

ZeroLimbs(n) == [i \in 1..n |-> <<>>]

InitScalar ==
    /\ buffer \in SeqsUpTo(ScalarByteVals, MaxScalarLen)
    /\ rest = buffer
    /\ declared = 0
    /\ field = NotSet
    /\ \E payload \in OrderPayloads :
         \E repr \in {biguint_to_u64_vec(from_bytes_be(payload))}
                        \cup {ZeroLimbs(k) : k \in 0..MaxReprLen} :
            order = [set |-> TRUE, order |-> from_bytes_be(payload),
                     order_len |-> Len(payload), as_vec |-> repr]
    /\ ext2 = NotSet
    /\ ext3 = NotSet
    /\ point = NotSet
    /\ last = [op |-> "none"]
    /\ failed = FALSE

NextScalar == DecodeScalar

SpecScalar == InitScalar /\ [][NextScalar]_vars

(***************************************************************************)
(* Vocabulary of the properties: byte strings compared as big-endian       *)
(* numbers without normalising them first.                                 *)
(***************************************************************************)
Max(a, b) == IF a >= b THEN a ELSE b

PadTo(s, n) == [i \in 1..(n - Len(s)) |-> 0] \o s

ValueLess(a, b) ==
    LET n == Max(Len(a), Len(b))
        pa == PadTo(a, n)
        pb == PadTo(b, n)
    IN \E i \in 1..n : pa[i] < pb[i] /\ \A j \in 1..(i - 1) : pa[j] = pb[j]

SameValue(a, b) ==
    LET n == Max(Len(a), Len(b)) IN PadTo(a, n) = PadTo(b, n)

Suffix(s, k) == SubSeq(s, k + 1, Len(s))

IsU64(l) == Len(l) <= LimbBytes /\ (l = <<>> \/ l[1] # 0)

Failure(res) == ~res.ok /\ DOMAIN res = {"ok", "kind", "msg"}

(***************************************************************************)
(* C1: decode_scalar_representation on at least order_byte_len bytes,      *)
(* with s the big-endian value of the first order_byte_len bytes: it       *)
(* fails and returns no scalar when s >= order; when s < order it          *)
(* succeeds, the limbs returned are u64 limbs whose value is exactly s,    *)
(* there are at least as many of them as order_repr has, and the           *)
(* remainder is bytes[order_byte_len..].                                   *)
(***************************************************************************)
C1_ScalarDecode ==
    (last.op = "decode_scalar_representation" /\ Len(last.input) >= last.n) =>
        LET enc == SubSeq(last.input, 1, last.n)
            res == last.result
        IN IF ~ValueLess(enc, order.order)
           THEN Failure(res)
           ELSE /\ res.ok
                /\ \A i \in 1..Len(res.value) : IsU64(res.value[i])
                /\ SameValue(LimbDigits(res.value), enc)
                /\ Len(res.value) >= Len(order.as_vec)
                /\ res.rest = Suffix(last.input, last.n)

C1_Witness ==
    /\ last.op = "decode_scalar_representation"
    /\ last.result.ok
    /\ Len(last.result.value) = 2
    /\ last.result.value[2] # <<>>
    /\ last.result.value[1] # <<>>
    /\ last.result.rest # <<>>

(***************************************************************************)
(* Vocabulary of the extension-field properties.                           *)
(***************************************************************************)
IsOddPrime(m) == m > 2 /\ m < 32768 /\ \A d \in 2..(m - 1) : m % d # 0

IsSquare(r, m) == \E x \in 1..(m - 1) : (x * x) % m = r

Modulus == ToNat(field.modulus)

ElementBytes(l) == SubSeq(l.input, 2, 1 + l.n)

HasCanonicalElement(l) ==
    /\ Len(l.input) >= 1 + l.n
    /\ ValueLess(ElementBytes(l), field.modulus)

ResidueViolation ==
    Err("InputError", "Non-residue for Fp2 is actually a residue")

Fp2Built(l) ==
    /\ l.result.ok
    /\ l.result.value.non_residue = ToNat(from_bytes_be(ElementBytes(l)))
    /\ l.result.value.field = field.field
    /\ Len(l.result.value.frobenius_coeffs_c1) = 2
    /\ l.result.rest = Suffix(l.input, 1 + l.n)

Fp2Case ==
    /\ last.op = "create_fp2_extension"
    /\ last.input # <<>>
    /\ last.input[1] = 2
    /\ HasCanonicalElement(last)
    /\ IsOddPrime(Modulus)

(***************************************************************************)
(* C2, as stated: create_fp2_extension with degree tag 2 and a canonical   *)
(* element r over a prime field fails with the residue-violation error     *)
(* whenever r is zero or a square, and succeeds, returning the extension    *)
(* and the remainder after tag and element, when r is a non-square.        *)
(***************************************************************************)
C2_Original ==
    Fp2Case =>
        LET r == ToNat(from_bytes_be(ElementBytes(last)))
        IN IF r = 0 \/ IsSquare(r, Modulus)
           THEN last.result = ResidueViolation
           ELSE Fp2Built(last)

(***************************************************************************)
(* C2, amended: a zero r is rejected by the zero test that precedes the    *)
(* Legendre test, with UnexpectedZero; a nonzero square fails with the     *)
(* residue-violation error; a non-square succeeds.                         *)
(***************************************************************************)
C2_Fp2Residue ==
    Fp2Case =>
        LET r == ToNat(from_bytes_be(ElementBytes(last)))
        IN IF r = 0
           THEN last.result =
                    Err("UnexpectedZero", "Fp2 non-residue can not be zero")
           ELSE IF IsSquare(r, Modulus)
           THEN last.result = ResidueViolation
           ELSE Fp2Built(last)

C2_Witness ==
    /\ Fp2Case
    /\ Modulus = 23
    /\ last.result.ok
    /\ last.result.value.non_residue = 7

(***************************************************************************)
(* C3: an input holding a complete length-prefixed modulus whose value is  *)
(* zero makes get_base_field_params and parse_base_field_from_encoding     *)
(* fail with UnexpectedZero, whatever follows the payload; no field is     *)
(* built and nothing is returned.                                          *)
(***************************************************************************)
ZeroPayload(input) ==
    /\ input # <<>>
    /\ Len(input) >= 1 + input[1]
    /\ \A i \in 2..(1 + input[1]) : input[i] = 0

C3_ZeroModulus ==
    (/\ last.op \in {"get_base_field_params", "parse_base_field_from_encoding"}
     /\ ZeroPayload(last.input)) =>
        /\ last.result = Err("UnexpectedZero", "Modulus can not be zero")
        /\ Failure(last.result)
        /\ (last.op = "parse_base_field_from_encoding" => ~field.set)

C3_Witness ==
    /\ last.op = "parse_base_field_from_encoding"
    /\ ZeroPayload(last.input)
    /\ last.input[1] = 2
    /\ Len(last.input) > 3
    /\ failed

(***************************************************************************)
(* C4: parse_group_order_from_encoding on a complete length-prefixed       *)
(* payload of value zero fails with the error kind UnexpectedZero, the     *)
(* kind with which a zero modulus is rejected, and returns no order.       *)
(***************************************************************************)
C4_ZeroOrderKind ==
    (/\ last.op = "parse_group_order_from_encoding"
     /\ ZeroPayload(last.input)) =>
        /\ Failure(last.result)
        /\ last.result.kind = "UnexpectedZero"
        /\ ~order.set

(***************************************************************************)
(* C5: the readers get_g1_curve_params and get_base_field_params, with     *)
(* L the first byte: an empty input or one of fewer than 1+L bytes fails   *)
(* with the input-too-short InputError; otherwise get_g1_curve_params      *)
(* returns L, bytes[1..1+L] as they are and bytes[1+L..], and              *)
(* get_base_field_params, on a nonzero payload, returns L, the big-endian  *)
(* value of bytes[1..1+L] and bytes[1+L..].                                *)
(***************************************************************************)
TruncationMessages ==
    { "Input is not long enough",
      "Input is not long enough to get modulus length",
      "Input is not long enough to get modulus",
      "Input is not long enough to get group size length",
      "Input is not long enough to get main group order size",
      "Input is not long enough to get X",
      "Input is not long enough to get Y",
      "Input is not long enough to get scalar",
      "Input is not long enough to get extension degree",
      "Input is not long enough to get Fp element" }

IsTruncation(res) ==
    /\ Failure(res)
    /\ res.kind = "InputError"
    /\ res.msg \in TruncationMessages

HeaderShort(input) == input = <<>> \/ Len(input) < 1 + input[1]

C5_Readers ==
    /\ (last.op \in {"get_g1_curve_params", "get_base_field_params"}
        /\ HeaderShort(last.input)) => IsTruncation(last.result)
    /\ (last.op = "get_g1_curve_params" /\ ~HeaderShort(last.input)) =>
          /\ last.result.ok
          /\ last.result.value.order_len = last.input[1]
          /\ last.result.value.order_encoding =
                 SubSeq(last.input, 2, 1 + last.input[1])
          /\ last.result.rest = Suffix(last.input, 1 + last.input[1])
    /\ (/\ last.op = "get_base_field_params"
        /\ ~HeaderShort(last.input)
        /\ ~ZeroPayload(last.input)) =>
          /\ last.result.ok
          /\ last.result.value.modulus_len = last.input[1]
          /\ SameValue(last.result.value.modulus,
                       SubSeq(last.input, 2, 1 + last.input[1]))
          /\ last.result.value.modulus # <<>>
          /\ last.result.value.modulus[1] # 0
          /\ last.result.rest = Suffix(last.input, 1 + last.input[1])

C5_Witness ==
    /\ last.op = "get_g1_curve_params"
    /\ last.result.ok
    /\ last.input[1] = 2
    /\ last.result.value.order_encoding = <<0, 0>>
    /\ last.result.rest # <<>>

(***************************************************************************)
(* C6: a degree tag other than 2 in create_fp2_extension, and other than   *)
(* 3 in create_fp3_extension, yields UnknownParameter whatever follows     *)
(* the tag: nothing, too few bytes, a non-canonical element, zero or a     *)
(* residue.                                                                *)
(***************************************************************************)
C6_DegreeTag ==
    /\ (/\ last.op = "create_fp2_extension"
        /\ last.input # <<>>
        /\ last.input[1] # 2) =>
          last.result =
              Err("UnknownParameter", "Extension degree expected to be 2")
    /\ (/\ last.op = "create_fp3_extension"
        /\ last.input # <<>>
        /\ last.input[1] # 3) =>
          last.result =
              Err("UnknownParameter", "Extension degree expected to be 3")

C6_Witness ==
    /\ last.op = "create_fp2_extension"
    /\ last.input = <<3>>
    /\ last.result.kind = "UnknownParameter"

(***************************************************************************)
(* The stages of C7 and the inputs shorter than a stage declares.          *)
(***************************************************************************)
FieldShort(input) == HeaderShort(input) \/ Len(input) < 1 + 2 * input[1]

ShortInput(l) ==
    \/ l.op = "parse_base_field_from_encoding" /\ FieldShort(l.input)
    \/ l.op = "parse_group_order_from_encoding" /\ HeaderShort(l.input)
    \/ l.op = "decode_g1_point_from_xy" /\ Len(l.input) < 2 * l.n
    \/ l.op = "decode_scalar_representation" /\ Len(l.input) < l.n

(***************************************************************************)
(* C7, as stated: at every stage an input shorter than the stage's         *)
(* declared length fails with the 'input is not long enough' InputError    *)
(* and returns nothing.                                                    *)
(***************************************************************************)
C7_Original ==
    (last.op # "none" /\ ShortInput(last)) => IsTruncation(last.result)

(***************************************************************************)
(* C7, amended: such an input always fails and returns nothing; the error  *)
(* is the 'input is not long enough' InputError unless a test of the bytes *)
(* that are present comes first and fails: a complete zero modulus is      *)
(* UnexpectedZero, and a complete non-canonical X is 'Failed to parse X'.  *)
(***************************************************************************)
C7_Truncation ==
    (last.op # "none" /\ ShortInput(last)) =>
        /\ Failure(last.result)
        /\ IF last.op = "parse_base_field_from_encoding"
                /\ ZeroPayload(last.input)
           THEN last.result = Err("UnexpectedZero", "Modulus can not be zero")
           ELSE IF /\ last.op = "decode_g1_point_from_xy"
                   /\ Len(last.input) >= last.n
                   /\ ~ValueLess(SubSeq(last.input, 1, last.n), field.modulus)
           THEN last.result = Err("InputError", "Failed to parse X")
           ELSE IsTruncation(last.result)

C7_Witness ==
    /\ last.op = "decode_g1_point_from_xy"
    /\ last.n = 2
    /\ Len(last.input) = 3
    /\ last.result.msg = "Input is not long enough to get Y"

(***************************************************************************)
(* C8: exact byte accounting.  Every successful step returns the suffix of *)
(* its input that starts after the step's declared length; after any       *)
(* sequence of successful steps the cursor is the suffix of the buffer     *)
(* that starts at the sum of the declared lengths; a failing step returns  *)
(* no remainder.                                                           *)
(***************************************************************************)
DeclaredLen(l) ==
    CASE l.op \in {"parse_base_field_from_encoding",
                   "parse_group_order_from_encoding"} -> 1 + l.input[1]
      [] l.op \in {"parse_ab_in_base_field_from_encoding",
                   "decode_g1_point_from_xy"} -> 2 * l.n
      [] l.op \in {"create_fp2_extension", "create_fp3_extension"} -> 1 + l.n
      [] l.op \in {"decode_g2_point_from_xy_in_fp2",
                   "parse_ab_in_fp2_from_encoding"} -> 4 * l.n
      [] l.op \in {"decode_g2_point_from_xy_in_fp3",
                   "parse_ab_in_fp3_from_encoding"} -> 6 * l.n
      [] l.op = "decode_scalar_representation" -> l.n

IsStep(l) == l.op \notin {"none", "serialize_g1_point"}

C8_ByteAccounting ==
    /\ ~failed => /\ declared <= Len(buffer)
                  /\ rest = Suffix(buffer, declared)
    /\ (IsStep(last) /\ last.result.ok) =>
          /\ DeclaredLen(last) <= Len(last.input)
          /\ last.result.rest = Suffix(last.input, DeclaredLen(last))
          /\ rest = last.result.rest
    /\ (IsStep(last) /\ ~last.result.ok) => Failure(last.result)

C8_Witness ==
    /\ buffer = <<1, 23, 3, 5>>
    /\ last.op = "parse_ab_in_base_field_from_encoding"
    /\ last.input = <<3, 5>>
    /\ last.result.ok
    /\ last.result.value = [a |-> 3, b |-> 5]
    /\ rest = <<>>
    /\ declared = 4

(***************************************************************************)
(* C8, second half: the cursor never moves backwards.                      *)
(***************************************************************************)
C8_CursorForward ==
    [][Len(rest') <= Len(rest) /\ declared' >= declared]_vars

(***************************************************************************)
(* C9: G1 round trip.  On an input whose first 2n bytes are two canonical  *)
(* n-byte elements X and Y, decode_g1_point_from_xy succeeds with the      *)
(* point (X, Y), whatever the curve, and serialize_g1_point(n, point)      *)
(* gives back exactly those 2n bytes.                                      *)
(***************************************************************************)
C9_G1RoundTrip ==
    /\ (/\ last.op = "decode_g1_point_from_xy"
        /\ Len(last.input) >= 2 * last.n
        /\ ValueLess(SubSeq(last.input, 1, last.n), field.modulus)
        /\ ValueLess(SubSeq(last.input, last.n + 1, 2 * last.n),
                     field.modulus)) =>
          /\ last.result.ok
          /\ last.result.value.x =
                 ToNat(from_bytes_be(SubSeq(last.input, 1, last.n)))
          /\ last.result.value.y =
                 ToNat(from_bytes_be(SubSeq(last.input, last.n + 1,
                                            2 * last.n)))
          /\ last.result.rest = Suffix(last.input, 2 * last.n)
          /\ point.p = last.result.value
          /\ point.encoding = SubSeq(last.input, 1, 2 * last.n)
    /\ last.op = "serialize_g1_point" =>
          /\ last.input = point.p
          /\ last.result.ok
          /\ last.result.value = point.encoding

C9_Witness ==
    /\ last.op = "serialize_g1_point"
    /\ last.n = 2
    /\ last.input.x = 5
    /\ last.input.y = 7
    /\ last.result.value = <<0, 5, 0, 7>>

(***************************************************************************)
(* C10: create_fp3_extension with degree tag 3 and a nonzero canonical     *)
(* element, a square or a cube included, never fails with the              *)
(* residue-violation error: it succeeds when the Frobenius coefficients    *)
(* can be derived, and fails with UnknownParameter when they cannot; a     *)
(* zero element is UnexpectedZero as in create_fp2_extension.              *)
(***************************************************************************)
Fp3Case ==
    /\ last.op = "create_fp3_extension"
    /\ last.input # <<>>
    /\ last.input[1] = 3
    /\ HasCanonicalElement(last)

C10_Fp3NoResidueTest ==
    Fp3Case =>
        LET r == ToNat(from_bytes_be(ElementBytes(last)))
        IN IF r = 0
           THEN last.result =
                    Err("UnexpectedZero", "Fp2 non-residue can not be zero")
           ELSE IF (Modulus - 1) % 3 = 0
           THEN /\ last.result.ok
                /\ last.result.value.non_residue = r
                /\ Len(last.result.value.frobenius_coeffs_c1) = 3
                /\ last.result.rest = Suffix(last.input, 1 + last.n)
           ELSE last.result =
                    Err("UnknownParameter",
                        "Failed to calculate Frobenius coeffs for Fp3")

C10_Witness ==
    /\ Fp3Case
    /\ Modulus = 7
    /\ last.result.ok
    /\ last.result.value.non_residue = 2
    /\ IsSquare(2, Modulus)

====
